---- MODULE Spec2Model ----
(***************************************************************************)
(* Model of the allocator latency analysis scripts of Zag:                 *)
(*   src/perf/heap_allocator/heap_latency.py   (heap, fixed paths)          *)
(*   src/perf/buddy_allocator/buddy_latency.py (buddy, fixed paths)         *)
(*   src/heap_latency.py                       (heap, command line)         *)
(* float64 values are modelled exactly: a finite value is a reduced        *)
(* fraction n/d, and NaN, +inf and -inf are values of their own that       *)
(* follow the IEEE-754 rules in every operation.  A square root that is    *)
(* not rational is kept as the signed root of a fraction.                  *)
(***************************************************************************)
EXTENDS Integers, Sequences, FiniteSets, TLC

VARIABLES
    pc,         \* position of the run
    script,     \* which of the three scripts runs
    raw,        \* the table as pd.read_csv returns it
    normalized, \* the columns read_data has assigned
    df,         \* the table after read_data
    corr_alloc, \* the correlation matrix of the alloc view
    plots,      \* the calls made to hist / plot_cdf by do_distribution_plots
    summaries,  \* the list `summaries` of main
    files,      \* the tables and the index written to the output directory
    series,     \* the argument of a statistics function called on its own
    ecdf_ret,   \* the pair returned by ecdf
    zoom_q,     \* the zoom quantile (per mille)
    x,          \* the argument of parse_bool called on its own
    ret         \* the value returned by parse_bool

vars == <<pc, script, raw, normalized, df, corr_alloc, plots, summaries, files, series,
          ecdf_ret, zoom_q, x, ret>>

(***************************************************************************)
(* Bounds of the model.                                                    *)
(***************************************************************************)
MaxLen == 3     \* longest series handed to a statistics function on its own
MaxVal == 2     \* largest finite value in such a series

(***************************************************************************)
(* float64                                                                 *)
(***************************************************************************)
Abs(a) == IF a < 0 THEN -a ELSE a

RECURSIVE GCD(_, _)
GCD(a, b) == IF b = 0 THEN a ELSE GCD(b, a % b)

Fin(n, d) ==
    LET g == GCD(Abs(n), d)
    IN  [k |-> "fin", n |-> n \div g, d |-> d \div g]

Num(n) == [k |-> "fin", n |-> n, d |-> 1]
NaN == [k |-> "nan", n |-> 0, d |-> 1]
PosInf == [k |-> "inf", n |-> 0, d |-> 1]
NegInf == [k |-> "ninf", n |-> 0, d |-> 1]
None == [k |-> "none", n |-> 0, d |-> 1]

isnan(a) == a.k = "nan"
isfinite(a) == a.k = "fin"

\* -1, 0 or 1; NaN has no sign and is never asked for one
Sign(a) ==
    CASE a.k = "inf" -> 1
      [] a.k = "ninf" -> -1
      [] OTHER -> IF a.n > 0 THEN 1 ELSE IF a.n < 0 THEN -1 ELSE 0

FNeg(a) ==
    CASE a.k = "nan" -> NaN
      [] a.k = "inf" -> NegInf
      [] a.k = "ninf" -> PosInf
      [] OTHER -> Fin(-a.n, a.d)

FAdd(a, b) ==
    CASE a.k = "nan" \/ b.k = "nan" -> NaN
      [] a.k = "inf" -> IF b.k = "ninf" THEN NaN ELSE PosInf
      [] a.k = "ninf" -> IF b.k = "inf" THEN NaN ELSE NegInf
      [] b.k = "inf" -> PosInf
      [] b.k = "ninf" -> NegInf
      [] OTHER -> Fin(a.n * b.d + b.n * a.d, a.d * b.d)

FSub(a, b) == FAdd(a, FNeg(b))

FMul(a, b) ==
    CASE a.k = "nan" \/ b.k = "nan" -> NaN
      [] a.k = "fin" /\ b.k = "fin" -> Fin(a.n * b.n, a.d * b.d)
      [] OTHER -> LET s == Sign(a) * Sign(b)
                  IN  IF s = 0 THEN NaN ELSE IF s > 0 THEN PosInf ELSE NegInf

\* a / m for an integer m > 0
FDivInt(a, m) == IF a.k = "fin" THEN Fin(a.n, a.d * m) ELSE a

\* a <= b; every comparison with NaN is false
FLeq(a, b) ==
    CASE a.k = "nan" \/ b.k = "nan" -> FALSE
      [] a.k = "ninf" \/ b.k = "inf" -> TRUE
      [] a.k = "inf" \/ b.k = "ninf" -> FALSE
      [] OTHER -> a.n * b.d <= b.n * a.d

ISqrt(m) == CHOOSE r \in 0..m : r * r <= m /\ (r + 1) * (r + 1) > m

IsSquare(m) == ISqrt(m) * ISqrt(m) = m

\* sqrt(a); an irrational root is the value [k |-> "root"] of its radicand
FSqrt(a) ==
    CASE a.k = "nan" \/ a.k = "ninf" -> NaN
      [] a.k = "inf" -> PosInf
      [] OTHER ->
           IF a.n < 0 THEN NaN
           ELSE IF IsSquare(a.n) /\ IsSquare(a.d) THEN Fin(ISqrt(a.n), ISqrt(a.d))
           ELSE [k |-> "root", n |-> a.n, d |-> a.d]

(***************************************************************************)
(* pandas Series: a sequence of float64                                    *)
(***************************************************************************)
dropna(s) == SelectSeq(s, LAMBDA v : ~isnan(v))

RECURSIVE Insert(_, _)
Insert(v, s) ==
    IF s = <<>> THEN <<v>>
    ELSE IF FLeq(v, Head(s)) THEN <<v>> \o s
    ELSE <<Head(s)>> \o Insert(v, Tail(s))

\* np.sort of a series without NaN
RECURSIVE Sort(_)
Sort(s) == IF s = <<>> THEN <<>> ELSE Insert(Head(s), Sort(Tail(s)))

RECURSIVE Sum(_)
Sum(s) == IF s = <<>> THEN Num(0) ELSE FAdd(Head(s), Sum(Tail(s)))

\* Series.min(), skipna: the first element of the sorted values
smin(s) == IF dropna(s) = <<>> THEN NaN ELSE Sort(dropna(s))[1]

smax(s) == IF dropna(s) = <<>> THEN NaN ELSE Sort(dropna(s))[Len(dropna(s))]

smean(s) ==
    IF dropna(s) = <<>> THEN NaN ELSE FDivInt(Sum(dropna(s)), Len(dropna(s)))

\* Series.std with the divisor n in place of n - 1
sstd_population(s) ==
    LET v == dropna(s)
        m == smean(v)
        sq == [i \in 1..Len(v) |-> FMul(FSub(v[i], m), FSub(v[i], m))]
    IN  IF Len(v) < 2 THEN NaN ELSE FSqrt(FDivInt(Sum(sq), Len(v)))

\* Series.std(ddof=1), skipna
sstd(s) ==
    LET v == dropna(s)
        m == smean(v)
        sq == [i \in 1..Len(v) |-> FMul(FSub(v[i], m), FSub(v[i], m))]
    IN  IF Len(v) < 2 THEN NaN ELSE FSqrt(FDivInt(Sum(sq), Len(v) - 1))

\* Series.quantile with the lower order statistic in place of the interpolation
quantile_lower(s, q) ==
    LET v == Sort(dropna(s))
        n == Len(v)
        lo == (q * (n - 1)) \div 1000
    IN  IF n = 0 THEN NaN ELSE v[lo + 1]

\* Series.quantile reading the values in the order of the rows
quantile_unsorted(s, q) ==
    LET v == dropna(s)
        n == Len(v)
        pos == q * (n - 1)
        lo == pos \div 1000
        hi == IF lo + 1 <= n - 1 THEN lo + 1 ELSE lo
        frac == Fin(pos % 1000, 1000)
    IN  IF n = 0 THEN NaN
        ELSE FAdd(v[lo + 1], FMul(FSub(v[hi + 1], v[lo + 1]), frac))

\* Series.quantile(q), interpolation 'linear': i + (j - i) * fraction at the
\* position q * (n - 1) of the sorted non-missing values; q is per mille
quantile(s, q) ==
    LET v == Sort(dropna(s))
        n == Len(v)
        pos == q * (n - 1)
        lo == pos \div 1000
        hi == IF lo + 1 <= n - 1 THEN lo + 1 ELSE lo
        frac == Fin(pos % 1000, 1000)
    IN  IF n = 0 THEN NaN
        ELSE FAdd(v[lo + 1], FMul(FSub(v[hi + 1], v[lo + 1]), frac))

\* np.linspace with endpoint=False
linspace_open(start, stop, num) ==
    [j \in 1..num |-> Fin(start * num + (j - 1) * (stop - start), num)]

\* np.linspace(start, stop, num, endpoint=True) for integers start, stop
linspace(start, stop, num) ==
    [j \in 1..num |->
        IF num = 1 THEN Num(start)
        ELSE IF j = num THEN Num(stop)
        ELSE Fin(start * (num - 1) + (j - 1) * (stop - start), num - 1)]

(***************************************************************************)
(* Python values: a cell of the table read by pd.read_csv, an argument of  *)
(* parse_bool.  A str is its sequence of characters.                       *)
(***************************************************************************)
PyStr(chars) == [t |-> "str", s |-> chars, v |-> None]
PyInt(n) == [t |-> "int", s |-> <<>>, v |-> Num(n)]
PyFloat(f) == [t |-> "float", s |-> <<>>, v |-> f]
PyBool(b) == [t |-> "bool", s |-> <<>>, v |-> IF b THEN Num(1) ELSE Num(0)]
PyNone == [t |-> "none", s |-> <<>>, v |-> None]

Whitespace == {" ", "\t"}

\* c.lower() for one character
LowerChar(c) ==
    CASE c = "T" -> "t" [] c = "R" -> "r" [] c = "U" -> "u" [] c = "E" -> "e"
      [] c = "Y" -> "y" [] c = "S" -> "s" [] c = "N" -> "n" [] c = "O" -> "o"
      [] c = "F" -> "f" [] c = "A" -> "a" [] c = "L" -> "l" [] c = "I" -> "i"
      [] OTHER -> c

\* str.lower()
lower(chars) == [i \in 1..Len(chars) |-> LowerChar(chars[i])]

RECURSIVE lstrip(_)
lstrip(chars) ==
    IF chars # <<>> /\ Head(chars) \in Whitespace THEN lstrip(Tail(chars))
    ELSE chars

RECURSIVE rstrip(_)
rstrip(chars) ==
    IF chars # <<>> /\ chars[Len(chars)] \in Whitespace
    THEN rstrip(SubSeq(chars, 1, Len(chars) - 1))
    ELSE chars

\* str.strip()
strip(chars) == rstrip(lstrip(chars))

\* a truthiness in which a missing value is false
bool_notna(v) == v.v.k # "nan" /\ ~(v.v.k = "fin" /\ v.v.n = 0)

\* bool(x) of a value that is not a str: zero is false, NaN is true
bool(v) == ~(v.v.k = "fin" /\ v.v.n = 0)

\* the tuple ('1', 'true', 't', 'yes', 'y')
TrueWords ==
    { <<"1">>, <<"t", "r", "u", "e">>, <<"t">>, <<"y", "e", "s">>, <<"y">> }

\* parse_bool without the strip
parse_bool_nostrip(v) ==
    IF v.t = "str" THEN lower(v.s) \in TrueWords ELSE bool(v)

\* parse_bool of read_data
parse_bool(v) ==
    IF v.t = "str" THEN lower(strip(v.s)) \in TrueWords ELSE bool(v)

(***************************************************************************)
(* Statistics helpers of the scripts                                       *)
(***************************************************************************)
ZOOM_Q == 990   \* ZOOM_Q = 0.99, per mille

\* percentiles() whose empty branch reports zeros
percentiles_zeros(ser) ==
    LET s == dropna(ser)
    IN  IF s = <<>>
        THEN [p500 |-> NaN, p900 |-> NaN, p950 |-> NaN, p990 |-> NaN,
              p999 |-> NaN, min |-> Num(0), max |-> Num(0), mean |-> Num(0),
              std |-> Num(0), count |-> 0]
        ELSE [p500 |-> quantile(s, 500), p900 |-> quantile(s, 900),
              p950 |-> quantile(s, 950), p990 |-> quantile(s, 990),
              p999 |-> quantile(s, 999), min |-> smin(s), max |-> smax(s),
              mean |-> smean(s),
              std |-> IF Len(s) > 1 THEN sstd(s) ELSE Num(0),
              count |-> Len(s)]

\* percentiles() counting the rows before the missing values are dropped
percentiles_rows(ser) ==
    LET s == dropna(ser)
    IN  IF s = <<>>
        THEN [p500 |-> NaN, p900 |-> NaN, p950 |-> NaN, p990 |-> NaN,
              p999 |-> NaN, min |-> NaN, max |-> NaN, mean |-> NaN,
              std |-> Num(0), count |-> 0]
        ELSE [p500 |-> quantile(s, 500), p900 |-> quantile(s, 900),
              p950 |-> quantile(s, 950), p990 |-> quantile(s, 990),
              p999 |-> quantile(s, 999), min |-> smin(s), max |-> smax(s),
              mean |-> smean(s),
              std |-> IF Len(s) > 1 THEN sstd(s) ELSE Num(0),
              count |-> Len(ser)]

\* percentiles() of perf/heap_allocator and perf/buddy_allocator; the keys
\* f"p{int(q*1000)}" of qs = (0.5, 0.9, 0.95, 0.99, 0.999) are p500 .. p999
percentiles(ser) ==
    LET s == dropna(ser)
    IN  IF s = <<>>
        THEN [p500 |-> NaN, p900 |-> NaN, p950 |-> NaN, p990 |-> NaN,
              p999 |-> NaN, min |-> NaN, max |-> NaN, mean |-> NaN,
              std |-> Num(0), count |-> 0]
        ELSE [p500 |-> quantile(s, 500), p900 |-> quantile(s, 900),
              p950 |-> quantile(s, 950), p990 |-> quantile(s, 990),
              p999 |-> quantile(s, 999), min |-> smin(s), max |-> smax(s),
              mean |-> smean(s),
              std |-> IF Len(s) > 1 THEN sstd(s) ELSE Num(0),
              count |-> Len(s)]

\* percentiles() of src/heap_latency.py: no dropna, no empty branch
percentiles_root(ser) ==
    [p500 |-> quantile(ser, 500), p900 |-> quantile(ser, 900),
     p950 |-> quantile(ser, 950), p990 |-> quantile(ser, 990),
     p999 |-> quantile(ser, 999),
     min |-> IF Len(ser) > 0 THEN smin(ser) ELSE NaN,
     max |-> IF Len(ser) > 0 THEN smax(ser) ELSE NaN,
     mean |-> IF Len(ser) > 0 THEN smean(ser) ELSE NaN,
     std |-> IF Len(ser) > 1 THEN sstd(ser) ELSE Num(0),
     count |-> Len(ser)]

WithTag(r, tag) ==
    [f \in DOMAIN r \cup {"tag"} |-> IF f = "tag" THEN tag ELSE r[f]]

\* add_summary of perf/heap_allocator and perf/buddy_allocator: the record
\* appended to summaries
add_summary(tag, ser) == WithTag(percentiles(ser), tag)

\* add_summary of src/heap_latency.py without its dropna
add_summary_root_keepna(tag, ser) == WithTag(percentiles_root(ser), tag)

\* add_summary of src/heap_latency.py
add_summary_root(tag, ser) == WithTag(percentiles_root(dropna(ser)), tag)

\* the record script s appends
AddSummaryAs(s, tag, ser) ==
    IF s = "heap_cli" THEN add_summary_root(tag, ser)
    ELSE add_summary(tag, ser)

\* the record the running script appends
AddSummary(tag, ser) == AddSummaryAs(script, tag, ser)

\* ecdf(): the sorted values and their probabilities
ecdf(ser) ==
    LET vals == Sort(dropna(ser))
    IN  IF Len(vals) = 0 THEN <<vals, <<>>>>
        ELSE <<vals, linspace(0, 1, Len(vals))>>

\* one call of the presentation layer
hist(data, prefix, part, xlim) ==
    [fn |-> "hist", prefix |-> prefix, part |-> part, data |-> data,
     x |-> <<>>, y |-> <<>>, xmax |-> xlim]

plot_cdf(ser, prefix, part, xmax) ==
    [fn |-> "plot_cdf", prefix |-> prefix, part |-> part, data |-> ser,
     x |-> ecdf(ser)[1], y |-> ecdf(ser)[2], xmax |-> xmax]

\* do_distribution_plots keeping s < p_zoom
do_distribution_plots_strict(ser, prefix) ==
    LET s == dropna(ser)
        p_zoom == quantile(s, zoom_q)
        xmax == IF isfinite(p_zoom) THEN FMul(p_zoom, Fin(1001, 1000)) ELSE None
        zoomed == SelectSeq(s, LAMBDA v : FLeq(v, p_zoom) /\ v # p_zoom)
    IN  IF s = <<>> THEN <<>>
        ELSE << hist(s, prefix, "full", None),
                plot_cdf(s, prefix, "full", None),
                hist(zoomed, prefix, "zoom", xmax),
                plot_cdf(zoomed, prefix, "zoom", xmax) >>

\* do_distribution_plots(series, prefix): the calls it makes, in order; the
\* zoom quantile is ZOOM_Q or args.zoom_q
do_distribution_plots(ser, prefix) ==
    LET s == dropna(ser)
        p_zoom == quantile(s, zoom_q)
        xmax == IF isfinite(p_zoom) THEN FMul(p_zoom, Fin(1001, 1000)) ELSE None
        zoomed == SelectSeq(s, LAMBDA v : FLeq(v, p_zoom))
    IN  IF s = <<>> THEN <<>>
        ELSE << hist(s, prefix, "full", None),
                plot_cdf(s, prefix, "full", None),
                hist(zoomed, prefix, "zoom", xmax),
                plot_cdf(zoomed, prefix, "zoom", xmax) >>

\* Series.median(), skipna
median(s) ==
    LET v == Sort(dropna(s))
        n == Len(v)
    IN  IF n = 0 THEN NaN
        ELSE IF n % 2 = 1 THEN v[(n + 1) \div 2]
        ELSE FDivInt(FAdd(v[n \div 2], v[n \div 2 + 1]), 2)

\* scatter(x, y, ...), lineplot(xs, ys, ...), boxplot(groups, labels, ...)
scatter(xs, ys, prefix, part) ==
    [fn |-> "scatter", prefix |-> prefix, part |-> part, data |-> <<>>,
     x |-> xs, y |-> ys, xmax |-> None]

lineplot(xs, ys, prefix, part) ==
    [fn |-> "lineplot", prefix |-> prefix, part |-> part, data |-> <<>>,
     x |-> xs, y |-> ys, xmax |-> None]

boxplot(groups, labels, prefix, part) ==
    [fn |-> "boxplot", prefix |-> prefix, part |-> part, data |-> groups,
     x |-> labels, y |-> <<>>, xmax |-> None]

(***************************************************************************)
(* The statistics functions called on their own, on every series of up to  *)
(* MaxLen values                                                           *)
(***************************************************************************)
Scripts == {"heap", "buddy", "heap_cli"}

\* --zoom_q of src/heap_latency.py (default 0.99)
ZoomQs == {500, 990, 1000}

Values == {Num(v) : v \in 0..MaxVal} \cup {NaN, PosInf, NegInf}

SeqsUpTo(S, m) == UNION {[1..l -> S] : l \in 0..m}

StatsInit ==
    /\ pc = "stats"
    /\ script \in Scripts
    /\ zoom_q \in (IF script = "heap_cli" THEN ZoomQs ELSE {ZOOM_Q})
    /\ series \in SeqsUpTo(Values, MaxLen)
    /\ raw = <<>>
    /\ normalized = {}
    /\ df = <<>>
    /\ corr_alloc = None
    /\ plots = <<>>
    /\ summaries = <<>>
    /\ files = {}
    /\ ecdf_ret = <<>>
    /\ x = PyNone
    /\ ret = FALSE

CallAddSummary ==
    /\ pc = "stats"
    /\ pc' = "stats_summary"
    /\ summaries' = Append(summaries, AddSummary(<<"alloc_all">>, series))
    /\ UNCHANGED <<script, normalized, raw, df, corr_alloc, plots, files, series,
                   ecdf_ret, zoom_q, x, ret>>

CallEcdf ==
    /\ pc = "stats"
    /\ pc' = "stats_ecdf"
    /\ ecdf_ret' = ecdf(series)
    /\ UNCHANGED <<script, normalized, raw, df, corr_alloc, plots, summaries, files,
                   series, zoom_q, x, ret>>

CallDoDistributionPlots ==
    /\ pc = "stats"
    /\ pc' = "stats_plots"
    /\ plots' = do_distribution_plots(series, "Alloc")
    /\ UNCHANGED <<script, normalized, raw, df, corr_alloc, summaries, files, series,
                   ecdf_ret, zoom_q, x, ret>>

StatsNext == CallAddSummary \/ CallEcdf \/ CallDoDistributionPlots

SpecStats == StatsInit /\ [][StatsNext]_vars

(***************************************************************************)
(* parse_bool called on its own                                            *)
(***************************************************************************)
MaxPad == 1     \* most whitespace characters on each side of a word

UpperChar(c) ==
    CASE c = "t" -> "T" [] c = "r" -> "R" [] c = "u" -> "U" [] c = "e" -> "E"
      [] c = "y" -> "Y" [] c = "s" -> "S" [] c = "n" -> "N" [] c = "o" -> "O"
      [] c = "f" -> "F" [] c = "a" -> "A" [] c = "l" -> "L" [] c = "i" -> "I"
      [] OTHER -> c

RECURSIVE CaseVariants(_)
CaseVariants(w) ==
    IF w = <<>> THEN {<<>>}
    ELSE {<<c>> \o r : c \in {Head(w), UpperChar(Head(w))},
                      r \in CaseVariants(Tail(w))}

\* words that are not in the tuple
OtherWords ==
    { <<>>, <<"0">>, <<"n", "o">>, <<"n">>, <<"2">>, <<"1", "1">>,
      <<"f", "a", "l", "s", "e">>, <<"t", "r", "u">>, <<"y", "e">>,
      <<"y", " ", "s">>, <<"t", "\t", "t">>, <<"n", "a", "n">> }

Words == UNION {CaseVariants(w) : w \in TrueWords \cup OtherWords}

StrInputs ==
    {PyStr(l \o w \o r) : l \in SeqsUpTo(Whitespace, MaxPad), w \in Words,
                          r \in SeqsUpTo(Whitespace, MaxPad)}

OtherInputs ==
    {PyInt(n) : n \in (-1)..MaxVal}
    \cup {PyFloat(f) : f \in {Num(0), Fin(1, 2), NaN, PosInf}}
    \cup {PyBool(b) : b \in BOOLEAN}

BoolInit ==
    /\ pc = "bool"
    /\ x \in StrInputs \cup OtherInputs
    /\ ret = FALSE
    /\ script = "heap"
    /\ zoom_q = ZOOM_Q
    /\ series = <<>>
    /\ raw = <<>>
    /\ normalized = {}
    /\ df = <<>>
    /\ corr_alloc = None
    /\ plots = <<>>
    /\ summaries = <<>>
    /\ files = {}
    /\ ecdf_ret = <<>>

CallParseBool ==
    /\ pc = "bool"
    /\ pc' = "bool_ret"
    /\ ret' = parse_bool(x)
    /\ UNCHANGED <<script, normalized, raw, df, corr_alloc, plots, summaries, files,
                   series, ecdf_ret, zoom_q, x>>

BoolNext == CallParseBool

SpecBool == BoolInit /\ [][BoolNext]_vars

(***************************************************************************)
(* read_data: the table and its normalisation                              *)
(***************************************************************************)
Digits == <<"0", "1", "2", "3", "4", "5", "6", "7", "8", "9">>

IsDigit(c) == \E j \in 1..10 : Digits[j] = c

DigitVal(c) == (CHOOSE j \in 1..10 : Digits[j] = c) - 1

AllDigits(chars) == \A j \in 1..Len(chars) : IsDigit(chars[j])

RECURSIVE ParseUInt(_)
ParseUInt(chars) ==
    IF chars = <<>> THEN 0
    ELSE 10 * ParseUInt(SubSeq(chars, 1, Len(chars) - 1))
           + DigitVal(chars[Len(chars)])

RECURSIVE Pow10(_)
Pow10(e) == IF e = 0 THEN 1 ELSE 10 * Pow10(e - 1)

\* the float a numeric string stands for, NaN when it stands for none
ParseNumber(chars) ==
    LET neg == chars # <<>> /\ Head(chars) = "-"
        body == IF neg THEN Tail(chars) ELSE chars
        dots == {j \in 1..Len(body) : body[j] = "."}
        dot == CHOOSE j \in dots : TRUE
        whole == SubSeq(body, 1, dot - 1)
        part == SubSeq(body, dot + 1, Len(body))
        mag == IF dots = {}
               THEN Num(ParseUInt(body))
               ELSE Fin(ParseUInt(whole) * Pow10(Len(part)) + ParseUInt(part),
                        Pow10(Len(part)))
    IN  IF lower(body) \in {<<"i", "n", "f">>}
        THEN (IF neg THEN NegInf ELSE PosInf)
        ELSE IF \/ body = <<>>
                \/ Cardinality(dots) > 1
                \/ (dots = {} /\ ~AllDigits(body))
                \/ (dots # {} /\ (~AllDigits(whole) \/ ~AllDigits(part)
                                      \/ Len(body) = 1))
        THEN NaN
        ELSE (IF neg THEN FNeg(mag) ELSE mag)

\* pd.to_numeric(cell, errors='coerce')
to_numeric(cell) ==
    CASE cell.t = "str" -> ParseNumber(cell.s)
      [] cell.t \in {"int", "float", "bool"} -> cell.v
      [] OTHER -> NaN

RECURSIVE DigitsOf(_)
DigitsOf(m) ==
    IF m < 10 THEN <<Digits[m + 1]>>
    ELSE DigitsOf(m \div 10) \o <<Digits[(m % 10) + 1]>>

\* str(cell) of astype(str)
astype_str(cell) ==
    CASE cell.t = "str" -> cell.s
      [] cell.t = "float" /\ cell.v.k = "nan" -> <<"n", "a", "n">>
      [] cell.t = "int" /\ cell.v.n >= 0 -> DigitsOf(cell.v.n)
      [] cell.t = "bool" ->
           (IF cell.v.n = 1 THEN <<"T", "r", "u", "e">>
            ELSE <<"F", "a", "l", "s", "e">>)
      [] OTHER -> <<"?">>

\* .fillna(-1) and then the floor
fillna_int_floor(f) ==
    IF f.k = "nan" THEN -1
    ELSE IF f.n >= 0 THEN f.n \div f.d ELSE -((-f.n + f.d - 1) \div f.d)

\* .fillna(-1).astype(int) of a finite or missing value: truncation
fillna_int(f) ==
    IF f.k = "nan" THEN -1
    ELSE IF f.n >= 0 THEN f.n \div f.d ELSE -((-f.n) \div f.d)

HeapColumns ==
    {"op", "type", "from_tree", "depth", "size", "tree_count", "cycles", "i"}

BuddyColumns == {"op", "type", "splits", "size", "cycles", "i"}

\* the columns read_data of the running script indexes
Columns == IF script = "buddy" THEN BuddyColumns ELSE HeapColumns

\* one row of the table after read_data
read_row(r) ==
    IF script = "buddy"
    THEN [op |-> astype_str(r.op), type |-> astype_str(r.type),
          from_tree |-> FALSE, depth |-> -1, tree_count |-> NaN,
          splits |-> fillna_int(to_numeric(r.splits)),
          size |-> to_numeric(r.size), cycles |-> to_numeric(r.cycles),
          i |-> to_numeric(r.i)]
    ELSE [op |-> astype_str(r.op), type |-> astype_str(r.type),
          from_tree |-> parse_bool(r.from_tree),
          depth |-> fillna_int(to_numeric(r.depth)),
          tree_count |-> to_numeric(r.tree_count), splits |-> -1,
          size |-> to_numeric(r.size), cycles |-> to_numeric(r.cycles),
          i |-> to_numeric(r.i)]

\* read_data dropping every row whose latency does not parse
read_data_rows(table) ==
    SelectSeq([j \in 1..Len(table.rows) |-> read_row(table.rows[j])],
              LAMBDA r : r.cycles.k # "nan")

\* read_data(path): the normalised table
read_data(table) == [j \in 1..Len(table.rows) |-> read_row(table.rows[j])]

\* astype(int) raises on a value that is not finite
IntCastFails(table) ==
    \E j \in 1..Len(table.rows) :
        LET cell == IF script = "buddy" THEN table.rows[j].splits
                    ELSE table.rows[j].depth
        IN  to_numeric(cell).k \in {"inf", "ninf"}

\* the columns in the order read_data assigns them
ReadOrder ==
    IF script = "buddy"
    THEN <<"op", "type", "splits", "size", "cycles", "i">>
    ELSE <<"op", "type", "from_tree", "depth", "size", "tree_count",
           "cycles", "i">>

\* the statement that assigns column c raises: KeyError, or the failed cast
Raises(table, c) ==
    \/ c \notin table.cols
    \/ c \in {"depth", "splits"} /\ IntCastFails(table)

\* the columns assigned when read_data returns or raises
Normalized(table) ==
    {ReadOrder[j] : j \in {m \in 1..Len(ReadOrder) :
                              \A k \in 1..m : ~Raises(table, ReadOrder[k])}}

(***************************************************************************)
(* main: views, correlation, distributions, summaries                      *)
(***************************************************************************)
Alloc == <<"a", "l", "l", "o", "c">>
Free == <<"f", "r", "e", "e">>

\* d[d['op'].str.lower() == o]
OpView_nocase(d, o) == SelectSeq(d, LAMBDA r : lower(r.op) = o)

\* d[d['op'] == o]
OpView(d, o) == SelectSeq(d, LAMBDA r : r.op = o)

\* df[df['op'] == 'alloc'], df[df['op'] == 'free']
df_alloc == OpView(df, Alloc)
df_free == OpView(df, Free)

\* view[view['splits'] >= 0]
SplitView(view) == SelectSeq(view, LAMBDA r : r.splits >= 0)

\* df_alloc[df_alloc['splits'] >= 0]
df_alloc_w_split == SplitView(df_alloc)

\* view[view['from_tree'] == True]
TreeView(view) == SelectSeq(view, LAMBDA r : r.from_tree)

\* df_alloc[df_alloc['from_tree'] == True]
df_alloc_tree == TreeView(df_alloc)

\* view[name]
Col(view, name) == [j \in 1..Len(view) |-> view[j][name]]

\* the code points of the characters that occur, in ascending order
CodeOrder ==
    <<"\t", " ", "-", ".", "0", "1", "2", "3", "4", "5", "6", "7", "8", "9",
      "=", "?", "A", "B", "E", "F", "I", "L", "N", "O", "R", "S", "T", "U",
      "Y", "_", "a", "c", "e", "f", "i", "l", "n", "o", "r", "s", "t", "u",
      "x", "y">>

ord(c) == CHOOSE j \in 1..Len(CodeOrder) : CodeOrder[j] = c

\* a < b for two str
RECURSIVE StrLt(_, _)
StrLt(a, b) ==
    IF b = <<>> THEN FALSE
    ELSE IF a = <<>> THEN TRUE
    ELSE IF Head(a) = Head(b) THEN StrLt(Tail(a), Tail(b))
    ELSE ord(Head(a)) < ord(Head(b))

\* sorted(..., reverse=True)
RECURSIVE SortedStrs_desc(_)
SortedStrs_desc(S) ==
    IF S = {} THEN <<>>
    ELSE LET m == CHOOSE a \in S : \A b \in S \ {a} : StrLt(b, a)
         IN  <<m>> \o SortedStrs_desc(S \ {m})

\* sorted(view['type'].unique())
RECURSIVE SortedStrs(_)
SortedStrs(S) ==
    IF S = {} THEN <<>>
    ELSE LET m == CHOOSE a \in S : \A b \in S \ {a} : StrLt(a, b)
         IN  <<m>> \o SortedStrs(S \ {m})

\* sorted(view['splits'].unique())
RECURSIVE SortedInts(_)
SortedInts(S) ==
    IF S = {} THEN <<>>
    ELSE LET m == CHOOSE a \in S : \A b \in S : a <= b
         IN  <<m>> \o SortedInts(S \ {m})

Unique(view, name) == {view[j][name] : j \in 1..Len(view)}

\* num_cols of the running script
NumCols ==
    IF script = "buddy" THEN {"size", "splits", "cycles"}
    ELSE {"size", "tree_count", "depth", "cycles"}

\* view[num_cols]: the numeric columns as float64
NumView(view) ==
    [j \in 1..Len(view) |->
        [c \in NumCols |->
            IF c \in {"depth", "splits"} THEN Num(view[j][c]) ELSE view[j][c]]]

\* a / b for finite a and b, b > 0
FDiv(a, b) == Fin(a.n * b.d, a.d * b.n)

\* the Pearson coefficient of columns a and b over the rows of a frame that
\* hold a value in every column of need
pearson_of(frame, need, a, b) ==
    LET rows == SelectSeq(frame, LAMBDA r : \A c \in need : isfinite(r[c]))
        n == Len(rows)
        xs == [j \in 1..n |-> rows[j][a]]
        ys == [j \in 1..n |-> rows[j][b]]
        mx == FDivInt(Sum(xs), n)
        my == FDivInt(Sum(ys), n)
        cov == Sum([j \in 1..n |-> FMul(FSub(xs[j], mx), FSub(ys[j], my))])
        vx == Sum([j \in 1..n |-> FMul(FSub(xs[j], mx), FSub(xs[j], mx))])
        vy == Sum([j \in 1..n |-> FMul(FSub(ys[j], my), FSub(ys[j], my))])
        root == FSqrt(FDiv(FMul(cov, cov), FMul(vx, vy)))
    IN  IF n = 0 THEN NaN
        ELSE IF FMul(vx, vy) = Num(0) THEN NaN
        ELSE IF cov.n >= 0 THEN root
        ELSE [k |-> root.k, n |-> -root.n, d |-> root.d]

\* DataFrame.corr keeping only the rows without any missing value
heatmap_corr_complete(frame) ==
    [a \in NumCols |-> [b \in NumCols |->
        pearson_of(frame, NumCols, a, b)]]

\* heatmap_corr(df, title, out_path): df.corr(numeric_only=True), the
\* coefficient of each pair over the rows where both columns hold a value
heatmap_corr(frame) ==
    [a \in NumCols |-> [b \in NumCols |->
        pearson_of(frame, {a, b}, a, b)]]

(***************************************************************************)
(* heatmap_corr called on its own, on every alloc view of up to            *)
(* MaxCorrRows rows                                                        *)
(***************************************************************************)
MaxCorrRows == 2

\* the values of a numeric column: two numbers and a missing cell
CorrValues == {Num(0), Num(1), NaN}

\* alloc rows; tree_count follows depth, which is never missing
CorrRows ==
    IF script = "buddy"
    THEN {[op |-> Alloc, type |-> <<"A">>, from_tree |-> FALSE, depth |-> -1,
           tree_count |-> NaN, splits |-> sp, size |-> sz, cycles |-> cy,
           i |-> Num(0)] :
             sp \in {0, 1}, sz \in CorrValues, cy \in CorrValues}
    ELSE {[op |-> Alloc, type |-> <<"A">>, from_tree |-> TRUE, depth |-> dp,
           tree_count |-> Num(dp), splits |-> -1, size |-> sz, cycles |-> cy,
           i |-> Num(0)] :
             dp \in {0, 1}, sz \in CorrValues, cy \in CorrValues}

CorrInit ==
    /\ pc = "corr"
    /\ script \in {"heap", "buddy"}
    /\ zoom_q = ZOOM_Q
    /\ df \in SeqsUpTo(CorrRows, MaxCorrRows)
    /\ raw = <<>>
    /\ normalized = {}
    /\ corr_alloc = None
    /\ plots = <<>>
    /\ summaries = <<>>
    /\ files = {}
    /\ series = <<>>
    /\ ecdf_ret = <<>>
    /\ x = PyNone
    /\ ret = FALSE

CallHeatmapCorr ==
    /\ pc = "corr"
    /\ pc' = "corr_ret"
    /\ corr_alloc' = heatmap_corr(NumView(df_alloc))
    /\ UNCHANGED <<script, normalized, raw, df, plots, summaries, files, series, ecdf_ret,
                   zoom_q, x, ret>>

CorrNext == CallHeatmapCorr

SpecCorr == CorrInit /\ [][CorrNext]_vars

(***************************************************************************)
(* main                                                                    *)
(***************************************************************************)
MaxRows == 2    \* most rows of the input table

Cell(chars) == PyStr(chars)
Missing == PyFloat(NaN)

\* an alloc row served from the tree after one split, 1 cycle
DefaultRow ==
    [op |-> Cell(Alloc), type |-> Cell(<<"B">>),
     from_tree |-> Cell(<<"t", "r", "u", "e">>), depth |-> Cell(<<"2">>),
     size |-> Cell(<<"8">>), tree_count |-> Cell(<<"5">>),
     splits |-> Cell(<<"1">>), cycles |-> Cell(<<"1">>), i |-> Cell(<<"0">>)]

NaN_text == <<"N", "a", "N", "_", "t", "e", "x", "t">>

\* alloc rows of both paths (of both split counts) and free rows, with and
\* without a latency
BaseRows ==
    {[DefaultRow EXCEPT !.from_tree = Cell(f), !.splits = Cell(s),
                        !.cycles = Cell(c)] :
        f \in (IF script = "buddy" THEN {<<"n", "o">>}
               ELSE {<<"t", "r", "u", "e">>, <<"n", "o">>}),
        s \in (IF script = "buddy" THEN {<<"0">>, <<"1">>} ELSE {<<"1">>}),
        c \in {<<"1">>, NaN_text}}
    \cup {[DefaultRow EXCEPT !.op = Cell(Free), !.cycles = Cell(c)] :
             c \in {<<"1">>, NaN_text}}

\* rows with a second category, a fractional key, an infinite latency, an
\* unknown or missing operation, missing cells, a malformed index, a key
\* that cannot be cast
VariantRows ==
    { [DefaultRow EXCEPT !.type = Cell(<<"A">>), !.cycles = Cell(<<"3">>),
                         !.depth = Cell(<<"2", ".", "7">>),
                         !.splits = Cell(<<"2", ".", "7">>)],
      [DefaultRow EXCEPT !.op = Cell(Free), !.type = Cell(<<"A">>),
                         !.cycles = Cell(<<"3">>),
                         !.depth = Cell(<<"-", "1", ".", "5">>),
                         !.splits = Cell(<<"-", "1", ".", "5">>)],
      [DefaultRow EXCEPT !.cycles = Cell(<<"i", "n", "f">>),
                         !.size = Missing],
      [DefaultRow EXCEPT !.op = Cell(<<"A", "l", "l", "o", "c">>)],
      [DefaultRow EXCEPT !.depth = Missing, !.splits = Missing,
                         !.size = Cell(<<"9">>), !.cycles = Cell(NaN_text)],
      IF script = "buddy" THEN [DefaultRow EXCEPT !.splits = Cell(<<"x">>)]
      ELSE [DefaultRow EXCEPT !.from_tree = Missing],
      [DefaultRow EXCEPT !.op = Missing, !.i = Cell(<<"x">>)],
      [DefaultRow EXCEPT !.depth = Cell(<<"i", "n", "f">>),
                         !.splits = Cell(<<"i", "n", "f">>)] }

Rows == BaseRows \cup VariantRows

\* the tables pd.read_csv can return: all columns and up to MaxRows rows, or
\* one column absent
Tables ==
    {[cols |-> Columns, rows |-> rs] : rs \in SeqsUpTo(Rows, MaxRows)}
    \cup {[cols |-> Columns \ {c}, rows |-> <<DefaultRow>>] : c \in Columns}

Init ==
    /\ pc = "read"
    /\ script \in Scripts
    /\ zoom_q \in (IF script = "heap_cli" THEN {ZOOM_Q, 500} ELSE {ZOOM_Q})
    /\ raw \in Tables
    /\ normalized = {}
    /\ df = <<>>
    /\ corr_alloc = None
    /\ plots = <<>>
    /\ summaries = <<>>
    /\ files = {}
    /\ series = <<>>
    /\ ecdf_ret = <<>>
    /\ x = PyNone
    /\ ret = FALSE

\* read_data that goes on without the columns the table lacks
ReadData_lenient ==
    /\ pc = "read"
    /\ normalized' = Columns \cap raw.cols
    /\ IF IntCastFails(raw)
       THEN pc' = "aborted" /\ df' = df
       ELSE pc' = "corr" /\ df' = read_data(raw)
    /\ UNCHANGED <<script, raw, corr_alloc, plots, summaries, files, series,
                   ecdf_ret, zoom_q, x, ret>>

\* df = read_data(...): a KeyError or a failed cast ends the run, after the
\* assignments that precede it
ReadData ==
    /\ pc = "read"
    /\ normalized' = Normalized(raw)
    /\ IF ~(Columns \subseteq raw.cols) \/ IntCastFails(raw)
       THEN pc' = "aborted" /\ df' = df
       ELSE pc' = "corr" /\ df' = read_data(raw)
    /\ UNCHANGED <<script, raw, corr_alloc, plots, summaries, files, series,
                   ecdf_ret, zoom_q, x, ret>>

\* the correlation matrix main computes from a table d, None when it skips
CorrOf(d) ==
    IF OpView(d, Alloc) # <<>> THEN heatmap_corr(NumView(OpView(d, Alloc)))
    ELSE None

\* Correlation (alloc only)
Correlation ==
    /\ pc = "corr"
    /\ pc' = "group"
    /\ IF df_alloc # <<>>
       THEN /\ corr_alloc' = CorrOf(df)
            /\ files' = files \cup {"alloc_corr.csv"}
       ELSE UNCHANGED <<corr_alloc, files>>
    /\ UNCHANGED <<script, normalized, raw, df, plots, summaries, series,
                   ecdf_ret, zoom_q, x, ret>>

\* view.groupby(name)['cycles'].median().reset_index(): keys ascending
MedianBy(view, name) ==
    LET keys == SortedInts(Unique(view, name))
    IN  [j \in 1..Len(keys) |->
            [key |-> keys[j],
             cycles |-> median(Col(SelectSeq(view,
                                   LAMBDA r : r[name] = keys[j]), "cycles"))]]

\* the plots of cycles against the discrete key of the schema: depth of the
\* from_tree allocations (heap), splits of the allocations that have them
\* (buddy)
GroupPlotsOf(d) ==
    LET name == IF script = "buddy" THEN "splits" ELSE "depth"
        view == IF script = "buddy" THEN SplitView(OpView(d, Alloc))
                ELSE TreeView(OpView(d, Alloc))
        stats == MedianBy(view, name)
        keys == SortedInts(Unique(view, name))
        groups == [j \in 1..Len(keys) |->
                     dropna(Col(SelectSeq(view, LAMBDA r : r[name] = keys[j]),
                                "cycles"))]
    IN  IF view = <<>> THEN <<>>
        ELSE << scatter(Col(view, name), Col(view, "cycles"), "Alloc", name),
                lineplot(Col(stats, "key"), Col(stats, "cycles"), "Alloc",
                         "median") >>
             \o (IF script = "buddy"
                 THEN <<boxplot(groups, keys, "Alloc", name)>> ELSE <<>>)

\* Depth vs cycles (alloc from_tree); cycles vs. splits
GroupPlots ==
    /\ pc = "group"
    /\ pc' = "time"
    /\ plots' = plots \o GroupPlotsOf(df)
    /\ UNCHANGED <<script, normalized, raw, df, corr_alloc, summaries, files,
                   series, ecdf_ret, zoom_q, x, ret>>

\* the two lineplot calls of cycles over time made for a table d
OverTimeOf(d) ==
    (IF OpView(d, Alloc) # <<>>
     THEN <<lineplot(Col(OpView(d, Alloc), "i"),
                     Col(OpView(d, Alloc), "cycles"), "Alloc", "over_time")>>
     ELSE <<>>)
    \o (IF OpView(d, Free) # <<>>
        THEN <<lineplot(Col(OpView(d, Free), "i"),
                        Col(OpView(d, Free), "cycles"), "Free", "over_time")>>
        ELSE <<>>)

\* Over time (alloc/free)
OverTime ==
    /\ pc = "time"
    /\ pc' = "dist"
    /\ plots' = plots \o OverTimeOf(df)
    /\ UNCHANGED <<script, normalized, raw, df, corr_alloc, summaries, files,
                   series, ecdf_ret, zoom_q, x, ret>>

\* the hist and plot_cdf calls made for a table d
DistributionsOf(d) ==
    (IF OpView(d, Alloc) # <<>>
     THEN do_distribution_plots(Col(OpView(d, Alloc), "cycles"), "Alloc")
     ELSE <<>>)
    \o (IF OpView(d, Free) # <<>>
        THEN do_distribution_plots(Col(OpView(d, Free), "cycles"), "Free")
        ELSE <<>>)

\* Distributions: do_distribution_plots of the alloc and of the free view
Distributions ==
    /\ pc = "dist"
    /\ pc' = "summary"
    /\ plots' = plots \o DistributionsOf(df)
    /\ UNCHANGED <<script, normalized, raw, df, corr_alloc, summaries, files,
                   series, ecdf_ret, zoom_q, x, ret>>

\* the add_summary calls of one loop of script s: one per key, in the order
\* of keys
ByKey(s, view, tag, name, keys) ==
    [j \in 1..Len(keys) |->
        AddSummaryAs(s, <<tag, keys[j]>>,
            Col(SelectSeq(view, LAMBDA r : r[name] = keys[j]), "cycles"))]

ByType(s, view, tag) ==
    ByKey(s, view, tag, "type", SortedStrs(Unique(view, "type")))

\* the summaries script s makes of the alloc view of a table d
AllocSummariesOf(s, d) ==
    LET alloc == OpView(d, Alloc)
        w_split == SplitView(alloc)
    IN  IF alloc = <<>> THEN <<>>
        ELSE IF s = "buddy"
        THEN <<AddSummaryAs(s, <<"alloc_all">>, Col(alloc, "cycles"))>>
             \o ByType(s, alloc, "alloc_type=")
             \o ByKey(s, w_split, "alloc_splits=", "splits",
                      SortedInts(Unique(w_split, "splits")))
        ELSE << AddSummaryAs(s, <<"alloc_all">>, Col(alloc, "cycles")),
                AddSummaryAs(s, <<"alloc_from_tree">>,
                    Col(SelectSeq(alloc, LAMBDA r : r.from_tree), "cycles")),
                AddSummaryAs(s, <<"alloc_not_from_tree">>,
                    Col(SelectSeq(alloc, LAMBDA r : ~r.from_tree), "cycles")) >>
             \o ByType(s, alloc, "alloc_type=")

\* the free summaries made only when the free view holds a latency
FreeSummariesOf_measured(s, d) ==
    LET free == OpView(d, Free)
    IN  IF dropna(Col(free, "cycles")) = <<>> THEN <<>>
        ELSE <<AddSummaryAs(s, <<"free_all">>, Col(free, "cycles"))>>
             \o ByType(s, free, "free_type=")

\* the summaries script s makes of the free view of a table d
FreeSummariesOf(s, d) ==
    LET free == OpView(d, Free)
    IN  IF free = <<>> THEN <<>>
        ELSE <<AddSummaryAs(s, <<"free_all">>, Col(free, "cycles"))>>
             \o ByType(s, free, "free_type=")

\* the list summaries of script s at the end of its add_summary calls
SummariesOf(s, d) == AllocSummariesOf(s, d) \o FreeSummariesOf(s, d)

\* the summaries of the alloc view
AllocSummaries == AllocSummariesOf(script, df)

\* the summaries of the free view
FreeSummaries == FreeSummariesOf(script, df)

\* Tail summaries
Summaries ==
    /\ pc = "summary"
    /\ pc' = "write"
    /\ summaries' = SummariesOf(script, df)
    /\ UNCHANGED <<script, normalized, raw, df, corr_alloc, plots, files, series,
                   ecdf_ret, zoom_q, x, ret>>

\* latency_summary.csv and README.txt
WriteSummary ==
    /\ pc = "write"
    /\ pc' = "done"
    /\ files' = files
                  \cup (IF summaries # <<>> THEN {"latency_summary.csv"} ELSE {})
                  \cup {"README.txt"}
    /\ UNCHANGED <<script, normalized, raw, df, corr_alloc, plots, summaries, series,
                   ecdf_ret, zoom_q, x, ret>>

Next ==
    \/ ReadData
    \/ Correlation
    \/ GroupPlots
    \/ OverTime
    \/ Distributions
    \/ Summaries
    \/ WriteSummary

Spec == Init /\ [][Next]_vars

(***************************************************************************)
(* Vocabulary of the properties                                            *)
(***************************************************************************)
Qs == {500, 900, 950, 990, 999}

\* the field of a summary record that reports quantile q
Reported(rec, q) ==
    CASE q = 500 -> rec.p500
      [] q = 900 -> rec.p900
      [] q = 950 -> rec.p950
      [] q = 990 -> rec.p990
      [] q = 999 -> rec.p999

NonMissing(ser) == SelectSeq(ser, LAMBDA v : v.k # "nan")

AllFinite(ser) == \A i \in 1..Len(ser) : ser[i].k = "fin"

FLt(a, b) == FLeq(a, b) /\ a # b

Below(ser, v) == Cardinality({i \in 1..Len(ser) : FLt(ser[i], v)})

UpTo(ser, v) == Cardinality({i \in 1..Len(ser) : FLeq(ser[i], v)})

Occurs(ser, v) == Cardinality({i \in 1..Len(ser) : ser[i] = v})

\* the order statistic x[j], j counted from 0, of a series without NaN
OrderStat(ser, j) ==
    CHOOSE v \in {ser[i] : i \in 1..Len(ser)} :
        Below(ser, v) <= j /\ j < UpTo(ser, v)

\* x[floor(r)] + (r - floor(r)) * (x[ceil(r)] - x[floor(r)]), r = q * (n - 1)
Interpolated(ser, q) ==
    LET s == NonMissing(ser)
        r == q * (Len(s) - 1)
        fl == r \div 1000
        ce == IF r = 1000 * fl THEN fl ELSE fl + 1
    IN  FAdd(OrderStat(s, fl),
             FMul(Fin(r - 1000 * fl, 1000),
                  FSub(OrderStat(s, ce), OrderStat(s, fl))))

\* a summary record of a group with latency values has been emitted
Summarised ==
    /\ pc = "stats_summary"
    /\ NonMissing(series) # <<>>
    /\ AllFinite(NonMissing(series))

Squared(a) == IF a.k = "root" THEN Fin(Abs(a.n), a.d) ELSE FMul(a, a)

SumOfSquares(ser) ==
    Sum([i \in 1..Len(ser) |-> FMul(ser[i], ser[i])])

Zoomed ==
    /\ pc = "stats_plots"
    /\ NonMissing(series) # <<>>
    /\ AllFinite(NonMissing(series))

(***************************************************************************)
(* C7: for a non-empty series of finite non-missing values and a zoom      *)
(* quantile q_zoom, with v the q_zoom-quantile of the series, the zoomed   *)
(* sub-series handed to hist and to plot_cdf holds exactly the elements    *)
(* of the series that are <= v, and the bound is x_max = v * 1.001.        *)
(***************************************************************************)
C7_Zoom ==
    Zoomed =>
        LET s == NonMissing(series)
            v == Interpolated(series, zoom_q)
        IN  /\ Len(plots) = 4
            /\ plots[3].fn = "hist" /\ plots[4].fn = "plot_cdf"
            /\ \A j \in {3, 4} :
                /\ plots[j].part = "zoom"
                /\ \A i \in 1..Len(s) :
                     Occurs(plots[j].data, s[i])
                       = IF FLeq(s[i], v) THEN Occurs(s, s[i]) ELSE 0
                /\ \A i \in 1..Len(plots[j].data) :
                     Occurs(s, plots[j].data[i]) > 0
                /\ plots[j].xmax = FMul(v, Fin(1001, 1000))

\* the largest value is cut off and the others are kept
C7_Witness ==
    /\ Zoomed
    /\ zoom_q = ZOOM_Q
    /\ Len(NonMissing(series)) = 3
    /\ Len(plots[3].data) = 2
    /\ plots[3].xmax.d > 1

(***************************************************************************)
(* C8 as stated: when the series is empty after dropping missing values,   *)
(* or the quantile value v is not finite, no zoomed sub-series is handed   *)
(* to the presentation layer and no bound is given.                        *)
(***************************************************************************)
C8_NoZoomWhenNotFinite ==
    (/\ pc = "stats_plots"
     /\ \/ NonMissing(series) = <<>>
        \/ quantile(series, zoom_q).k # "fin") =>
        \A i \in 1..Len(plots) : plots[i].part # "zoom"

\* two characters that are equal up to their case
SameLetter(c, d) ==
    \/ c = d
    \/ <<c, d>> \in {<<"T", "t">>, <<"R", "r">>, <<"U", "u">>, <<"E", "e">>,
                     <<"Y", "y">>, <<"S", "s">>}

\* chars is the word w in any case between two runs of whitespace
IsPadded(chars, w) ==
    \E i \in 0..Len(chars) :
        /\ i + Len(w) <= Len(chars)
        /\ \A j \in 1..i : chars[j] \in {" ", "\t"}
        /\ \A j \in 1..Len(w) : SameLetter(chars[i + j], w[j])
        /\ \A j \in (i + Len(w) + 1)..Len(chars) : chars[j] \in {" ", "\t"}

(***************************************************************************)
(* C10: parse_bool of a string is true exactly when the string, trimmed    *)
(* and lowercased, is one of "1", "true", "t", "yes", "y" ("TRUE",         *)
(* " Yes ", "T" give true; "no", "", "0" give false); of another value it  *)
(* is the value's truthiness (1 gives true, 0 gives false).                *)
(***************************************************************************)
C10_ParseBool ==
    pc = "bool_ret" =>
        /\ x.t = "str" =>
             (ret <=> \E w \in { <<"1">>, <<"t", "r", "u", "e">>, <<"t">>,
                                 <<"y", "e", "s">>, <<"y">> } :
                          IsPadded(x.s, w))
        /\ x.s \in { <<"T", "R", "U", "E">>, <<" ", "Y", "e", "s", " ">>,
                     <<"T">> } => ret
        /\ (x.t = "str" /\ x.s \in { <<"n", "o">>, <<>>, <<"0">> }) => ~ret
        /\ x.t # "str" => (ret <=> x.v # Num(0))
        /\ x = PyInt(1) => ret
        /\ x = PyInt(0) => ~ret

\* " Yes " has been coerced
C10_Witness ==
    /\ pc = "bool_ret"
    /\ x = PyStr(<<" ", "Y", "e", "s", " ">>)
    /\ ret

\* the coefficient of columns a and b over the rows of the alloc view that
\* miss no field of need, from the sums:
\* (n Sxy - Sx Sy) / sqrt((n Sxx - Sx^2) (n Syy - Sy^2))
Coefficient(need, a, b) ==
    LET rows == SelectSeq(NumView(df_alloc),
                          LAMBDA r : \A c \in need : r[c].k # "nan")
        n == Len(rows)
        S(f, g) == Sum([j \in 1..n |-> FMul(rows[j][f], rows[j][g])])
        Sx == Sum([j \in 1..n |-> rows[j][a]])
        Sy == Sum([j \in 1..n |-> rows[j][b]])
        num == FSub(FMul(Num(n), S(a, b)), FMul(Sx, Sy))
        dx == FSub(FMul(Num(n), S(a, a)), FMul(Sx, Sx))
        dy == FSub(FMul(Num(n), S(b, b)), FMul(Sy, Sy))
    IN  [defined |-> n > 0 /\ FMul(dx, dy) # Num(0),
         sign |-> Sign(num),
         num2 |-> FMul(num, num),
         den2 |-> FMul(dx, dy)]

\* the value c of the matrix is the coefficient e
IsCoefficient(c, e) ==
    IF e.defined
    THEN /\ c.k \in {"fin", "root"}
         /\ Sign(c) = e.sign
         /\ FMul(Squared(c), e.den2) = e.num2
    ELSE c = NaN

(***************************************************************************)
(* C9 as stated: every coefficient of the correlation matrix of the alloc  *)
(* view is computed from the rows in which all selected fields are         *)
(* non-missing.                                                            *)
(***************************************************************************)
C9_CompleteCase ==
    pc = "corr_ret" =>
        \A a \in NumCols : \A b \in NumCols :
            IsCoefficient(corr_alloc[a][b],
                Coefficient(NumCols, a, b))

(***************************************************************************)
(* C9 amended: the coefficient of each pair of fields is computed from     *)
(* the rows in which the two fields of that pair are non-missing           *)
(* (pairwise-complete); a row with a missing value in another field still  *)
(* contributes to it.                                                      *)
(***************************************************************************)
C9_PairwiseComplete ==
    pc = "corr_ret" =>
        \A a \in NumCols : \A b \in NumCols :
            IsCoefficient(corr_alloc[a][b],
                Coefficient({a, b}, a, b))

\* a row without size takes part in the coefficient of splits and cycles
C9_Witness ==
    /\ pc = "corr_ret"
    /\ script = "buddy"
    /\ Len(df) = 2
    /\ df[1].size = NaN /\ df[2].size # NaN
    /\ corr_alloc["splits"]["cycles"] = Num(-1)
    /\ corr_alloc["size"]["cycles"] = NaN

\* the summary records whose tag starts with the word w
Tagged(w) == SelectSeq(summaries, LAMBDA r : r.tag[1] = w)

RECURSIVE TotalCount(_)
TotalCount(recs) ==
    IF recs = <<>> THEN 0 ELSE Head(recs).count + TotalCount(Tail(recs))

\* the rows of an operation that have a latency
Measured(o) ==
    Cardinality({j \in 1..Len(df) : df[j].op = o /\ df[j].cycles.k # "nan"})

RowsOf(o) == Cardinality({j \in 1..Len(df) : df[j].op = o})

(***************************************************************************)
(* C3: over each exhaustive partition of an operation view (alloc by       *)
(* type, free by type, alloc by from_tree) the counts of the group         *)
(* records add up to the count of the '<operation>_all' record, which is   *)
(* the number of rows of the view with a non-missing cycles value.         *)
(***************************************************************************)
C3_CountsPartition ==
    pc \in {"write", "done"} =>
        /\ Len(Tagged("alloc_all")) = (IF RowsOf(Alloc) > 0 THEN 1 ELSE 0)
        /\ Len(Tagged("free_all")) = (IF RowsOf(Free) > 0 THEN 1 ELSE 0)
        /\ TotalCount(Tagged("alloc_all")) = Measured(Alloc)
        /\ TotalCount(Tagged("free_all")) = Measured(Free)
        /\ TotalCount(Tagged("alloc_type=")) = TotalCount(Tagged("alloc_all"))
        /\ TotalCount(Tagged("free_type=")) = TotalCount(Tagged("free_all"))
        /\ script # "buddy" =>
             TotalCount(Tagged("alloc_from_tree"))
               + TotalCount(Tagged("alloc_not_from_tree"))
                 = TotalCount(Tagged("alloc_all"))

\* two alloc rows, one with a malformed latency, split over the two paths
C3_Witness ==
    /\ pc = "done"
    /\ script = "heap"
    /\ RowsOf(Alloc) = 2
    /\ TotalCount(Tagged("alloc_all")) = 1
    /\ \E j \in 1..Len(df) : df[j].from_tree /\ df[j].cycles.k = "nan"
    /\ \E j \in 1..Len(df) : ~df[j].from_tree /\ df[j].cycles.k = "fin"
    /\ Len(Tagged("alloc_from_tree")) = 1
    /\ Tagged("alloc_from_tree")[1].count = 0
    /\ Tagged("alloc_not_from_tree")[1].count = 1

(***************************************************************************)
(* Vocabulary of the properties of a whole run                             *)
(***************************************************************************)
Ops == {Alloc, Free}

Prefix(o) == IF o = Alloc THEN "Alloc" ELSE "Free"

AllTag(o) == IF o = Alloc THEN "alloc_all" ELSE "free_all"

TypeTag(o) == IF o = Alloc THEN "alloc_type=" ELSE "free_type="

\* the positions the run has after read_data returned, and so on
AfterRead == {"corr", "group", "time", "dist", "summary", "write", "done"}
AfterCorr == AfterRead \ {"corr"}
AfterTime == {"dist", "summary", "write", "done"}
AfterDist == {"summary", "write", "done"}
AfterSummaries == {"write", "done"}

\* the calls of one kind made for one operation
Calls(fn, o, part) ==
    SelectSeq(plots, LAMBDA c : c.fn = fn /\ c.prefix = Prefix(o)
                                 /\ c.part = part)

\* the cycles cell of raw row j does not parse to a number
Malformed(j) == to_numeric(raw.rows[j].cycles).k = "nan"

\* a cell that parses
GoodCell == Cell(<<"1">>)

(***************************************************************************)
(* C11: missing-data exclusion is per field.  A row whose cycles cell      *)
(* fails numeric coercion stays in the table with cycles = NaN and every   *)
(* other field as its own cell gives it; it is in the series of the        *)
(* over-time plot of its operation and in the coefficients of the other    *)
(* fields, and it is in no cycles statistic: not in the data of hist, not  *)
(* in the ECDF, not in the zoom, not in count or the statistics of the     *)
(* summary records.                                                        *)
(***************************************************************************)
C11_FieldLevelExclusion ==
    /\ pc \in AfterRead => Len(df) = Len(raw.rows)
    /\ pc = "corr" =>
         \A j \in 1..Len(raw.rows) :
             Malformed(j) =>
               LET good == read_row([raw.rows[j] EXCEPT !.cycles = GoodCell])
               IN  /\ df[j].cycles = NaN
                   /\ \A f \in DOMAIN df[j] \ {"cycles"} : df[j][f] = good[f]
    /\ pc = "group" /\ df_alloc # <<>> =>
         \A a \in NumCols \ {"cycles"} : \A b \in NumCols \ {"cycles"} :
             IsCoefficient(corr_alloc[a][b], Coefficient({a, b}, a, b))
    /\ pc \in AfterTime =>
         \A o \in Ops :
             LET calls == Calls("lineplot", o, "over_time")
                 view == OpView(df, o)
             IN  /\ Len(calls) = (IF view # <<>> THEN 1 ELSE 0)
                 /\ \A k \in 1..Len(calls) :
                      /\ calls[k].x = Col(view, "i")
                      /\ calls[k].y = Col(view, "cycles")
    /\ pc \in AfterDist =>
         \A o \in Ops :
             LET calls == SelectSeq(plots,
                              LAMBDA c : c.fn \in {"hist", "plot_cdf"}
                                           /\ c.prefix = Prefix(o))
                 m == Measured(o)
             IN  \A k \in 1..Len(calls) :
                     /\ NonMissing(calls[k].data) = calls[k].data
                     /\ NonMissing(calls[k].x) = calls[k].x
                     /\ Len(calls[k].data) <= m
                     /\ calls[k].fn = "plot_cdf" /\ calls[k].part = "full" =>
                          Len(calls[k].x) = m
    /\ pc \in AfterSummaries =>
         \A o \in Ops :
             LET recs == Tagged(AllTag(o))
             IN  \A k \in 1..Len(recs) :
                     recs[k] = AddSummaryAs(script, <<AllTag(o)>>,
                                   NonMissing(Col(OpView(df, o), "cycles")))

\* two alloc rows, one with a malformed latency and its own size and key:
\* the size coefficient is defined, the count is 1, the over-time plot has 2
C11_Witness ==
    /\ pc = "done"
    /\ RowsOf(Alloc) = 2
    /\ \E j \in 1..Len(raw.rows) : Malformed(j) /\ df[j].op = Alloc
    /\ Measured(Alloc) = 1
    /\ Tagged("alloc_all")[1].count = 1
    /\ Len(Calls("lineplot", Alloc, "over_time")[1].x) = 2
    /\ Len(Calls("plot_cdf", Alloc, "full")[1].x) = 1
    /\ \E a \in NumCols \ {"size", "cycles"} : corr_alloc["size"][a].k = "fin"

\* the summary records of one operation
RecordsOf(o) ==
    SelectSeq(summaries,
        LAMBDA r : r.tag[1] \in (IF o = Alloc
                                 THEN {"alloc_all", "alloc_from_tree",
                                       "alloc_not_from_tree", "alloc_type=",
                                       "alloc_splits="}
                                 ELSE {"free_all", "free_type="}))

\* the keys of the records of one grouping
KeysOf(w) == {Tagged(w)[k].tag[2] : k \in 1..Len(Tagged(w))}

\* one record per category of the view of o
RowPerType(o) ==
    /\ KeysOf(TypeTag(o)) = Unique(OpView(df, o), "type")
    /\ Len(Tagged(TypeTag(o))) = Cardinality(Unique(OpView(df, o), "type"))

TagsOf(recs) == [k \in 1..Len(recs) |-> recs[k].tag]

\* the keys of the records of one grouping, in the order of the records
KeySeq(w) == [k \in 1..Len(Tagged(w)) |-> Tagged(w)[k].tag[2]]

\* the table d with rows k and k + 1 exchanged; these exchanges generate
\* every order in which the rows can be given
Exchanged(d, k) ==
    [j \in 1..Len(d) |-> IF j = k THEN d[k + 1] ELSE IF j = k + 1 THEN d[k]
                         ELSE d[j]]

(***************************************************************************)
(* C13: in each grouping of the summary table the records come in          *)
(* strictly ascending order of the key (by character code for the          *)
(* categories, by value for the split counts), so one record per distinct  *)
(* key, and the table with two neighbouring rows exchanged, hence every    *)
(* permutation of the table, gives the same sequence of tags.              *)
(***************************************************************************)
C13_SortedKeys ==
    pc \in AfterSummaries =>
        /\ \A o \in Ops :
             LET keys == KeySeq(TypeTag(o))
             IN  /\ \A k \in 1..(Len(keys) - 1) : StrLt(keys[k], keys[k + 1])
                 /\ {keys[k] : k \in 1..Len(keys)}
                      = Unique(OpView(df, o), "type")
        /\ LET keys == KeySeq("alloc_splits=")
           IN  /\ \A k \in 1..(Len(keys) - 1) : keys[k] < keys[k + 1]
               /\ script = "buddy" =>
                    {keys[k] : k \in 1..Len(keys)}
                      = Unique(df_alloc_w_split, "splits")
        /\ pc = "write" =>
             \A k \in 1..(Len(df) - 1) :
                 TagsOf(SummariesOf(script, Exchanged(df, k)))
                   = TagsOf(summaries)

\* category B is met before category A, and A is summarised first
C13_Witness ==
    /\ pc = "done"
    /\ Len(df) = 2
    /\ df[1].op = Alloc /\ df[2].op = Alloc
    /\ df[1].type = <<"B">> /\ df[2].type = <<"A">>
    /\ KeySeq("alloc_type=") = << <<"A">>, <<"B">> >>

\* the columns the specification calls required
Required == {"op", "cycles", "size", "i"}

\* the input table lacks a required column
LacksRequired == \E c \in Required : c \notin raw.cols

\* nothing has been handed to main or written
NoOutput ==
    /\ df = <<>>
    /\ corr_alloc = None
    /\ plots = <<>>
    /\ summaries = <<>>
    /\ files = {}

(***************************************************************************)
(* C14 as stated: when a required column is absent the run aborts before   *)
(* any column is normalized, and writes nothing.                           *)
(***************************************************************************)
C14_AbortsBeforeNormalizing ==
    pc # "read" /\ LacksRequired =>
        /\ pc = "aborted"
        /\ normalized = {}
        /\ NoOutput

(***************************************************************************)
(* C14 amended: when a required column is absent the run aborts inside     *)
(* read_data, at the assignment of the first absent column: only columns   *)
(* assigned before it have been normalized, in a table that is never       *)
(* handed to main, and nothing is written.                                 *)
(***************************************************************************)
C14_AbortsWithoutOutput ==
    pc # "read" /\ LacksRequired =>
        /\ pc = "aborted"
        /\ \A j \in 1..Len(ReadOrder) : \A k \in 1..Len(ReadOrder) :
             ReadOrder[j] \in normalized /\ ReadOrder[k] \notin raw.cols
               => j < k
        /\ NoOutput

\* cycles is absent: op and type were normalized before the run ended
C14_Witness ==
    /\ pc = "aborted"
    /\ "cycles" \notin raw.cols
    /\ {"op", "type"} \subseteq normalized
    /\ "cycles" \notin normalized
    /\ files = {}

\* raw row j is labelled neither "alloc" nor "free"
UnknownOp(j) ==
    ~(raw.rows[j].op.t = "str" /\ raw.rows[j].op.s \in {Alloc, Free})

\* the normalized table without the rows of unknown operation
KnownRows ==
    LET keep == {j \in 1..Len(df) : ~UnknownOp(j)}
        F[j \in 0..Len(df)] ==
            IF j = 0 THEN <<>>
            ELSE IF j \in keep THEN Append(F[j - 1], df[j]) ELSE F[j - 1]
    IN  F[Len(df)]

(***************************************************************************)
(* C15: a row whose op is neither exactly "alloc" nor exactly "free" is    *)
(* kept in the normalized table with its label unchanged and is in         *)
(* neither view; the two views are disjoint; the correlation matrix, the   *)
(* plot calls (ECDF included) and the summary records are those of the     *)
(* table without such rows.                                                *)
(***************************************************************************)
C15_UnknownOperation ==
    /\ pc \in AfterRead =>
         /\ Len(df) = Len(raw.rows)
         /\ \A j \in 1..Len(df) :
              /\ raw.rows[j].op.t = "str" => df[j].op = raw.rows[j].op.s
              /\ UnknownOp(j) => df[j].op \notin {Alloc, Free}
         /\ Len(df_alloc) + Len(df_free)
              + Cardinality({j \in 1..Len(df) : UnknownOp(j)}) = Len(df)
         /\ \A j \in 1..Len(df_alloc) : \A k \in 1..Len(df_free) :
              df_alloc[j].op # df_free[k].op
    /\ pc = "group" => corr_alloc = CorrOf(KnownRows)
    /\ pc = "summary" =>
         plots = GroupPlotsOf(KnownRows) \o OverTimeOf(KnownRows)
                   \o DistributionsOf(KnownRows)
    /\ pc \in AfterSummaries => summaries = SummariesOf(script, KnownRows)

\* a row labelled "Alloc" with a latency next to an alloc row: one count
C15_Witness ==
    /\ pc = "done"
    /\ Len(df) = 2
    /\ \E j \in 1..2 : /\ df[j].op = <<"A", "l", "l", "o", "c">>
                       /\ df[j].cycles.k = "fin"
    /\ RowsOf(Alloc) = 1
    /\ Tagged("alloc_all")[1].count = 1
    /\ Len(Calls("lineplot", Alloc, "over_time")[1].x) = 1

\* the discrete key of the schema: depth (heap) or splits (buddy)
KeyName == IF script = "buddy" THEN "splits" ELSE "depth"

\* v is the float f without its fraction
IsTruncated(v, f) ==
    /\ v \in Int
    /\ Abs(v) * f.d <= Abs(f.n)
    /\ Abs(f.n) < (Abs(v) + 1) * f.d
    /\ v # 0 => (v > 0 <=> f.n > 0)

(***************************************************************************)
(* C16: in the table read_data returns, depth (heap) and splits (buddy)    *)
(* are integers in every row: -1 where the cell is absent or does not      *)
(* parse to a number, and otherwise the parsed value without its           *)
(* fraction.                                                               *)
(***************************************************************************)
C16_IntegerKey ==
    pc \in AfterRead =>
        \A j \in 1..Len(df) :
            LET cell == raw.rows[j][KeyName]
                f == to_numeric(cell)
                v == df[j][KeyName]
            IN  /\ v \in Int
                /\ (cell = Missing \/ f.k = "nan") => v = -1
                /\ f.k = "fin" => IsTruncated(v, f)

\* "2.7" has become 2 and a missing cell -1
C16_Witness ==
    /\ pc = "done"
    /\ \E j \in 1..Len(df) :
         /\ raw.rows[j][KeyName] = Cell(<<"2", ".", "7">>)
         /\ df[j][KeyName] = 2
    /\ \E j \in 1..Len(df) :
         /\ raw.rows[j][KeyName] = Missing
         /\ df[j][KeyName] = -1

(***************************************************************************)
(* C17 as stated: in the table read_data returns no row has a missing op   *)
(* and no row has a missing (NaN) i.                                       *)
(***************************************************************************)
C17_DefinedOpAndIndex ==
    pc \in AfterRead =>
        \A j \in 1..Len(df) :
            /\ df[j].op \in Seq(STRING) /\ df[j].op # <<>>
            /\ df[j].i.k # "nan"

\* the other heap script
OtherHeap == IF script = "heap" THEN "heap_cli" ELSE "heap"

(***************************************************************************)
(* C18: the two heap scripts make the same list of summary records from    *)
(* the same table: the records of the running heap script are, field for   *)
(* field and in the same order, those the other heap script computes,      *)
(* empty groups included.                                                  *)
(***************************************************************************)
C18_SameSummaries ==
    pc \in AfterSummaries /\ script # "buddy" =>
        summaries = SummariesOf(OtherHeap, df)

\* src/heap_latency.py with a group that has no latency, a group that lost
\* a row to dropna, and a group of one
C18_Witness ==
    /\ pc = "done"
    /\ script = "heap_cli"
    /\ RowsOf(Alloc) = 2
    /\ Measured(Alloc) = 1
    /\ Tagged("alloc_all")[1].count = 1
    /\ Tagged("alloc_all")[1].std = Num(0)
    /\ \E w \in {"alloc_from_tree", "alloc_not_from_tree"} :
         /\ Tagged(w)[1].count = 0
         /\ Tagged(w)[1].min = NaN
         /\ Tagged(w)[1].std = Num(0)

\* raw row j has no from_tree cell
NoFromTree(j) == raw.rows[j].from_tree = Missing

\* the from_tree cell of raw row j reads as true
ReadsTrue(j) ==
    /\ raw.rows[j].from_tree.t = "str"
    /\ raw.rows[j].from_tree.s = <<"t", "r", "u", "e">>

\* the alloc rows with a latency among the rows J
MeasuredAllocs(J) ==
    Cardinality({j \in J : df[j].op = Alloc /\ df[j].cycles.k # "nan"})

(***************************************************************************)
(* C19: in the heap scripts a missing from_tree cell is read as true: the  *)
(* row has from_tree = True, an alloc row of that kind is in the           *)
(* alloc-from-tree view plotted against depth and is counted in            *)
(* 'alloc_from_tree', never in 'alloc_not_from_tree'.                      *)
(***************************************************************************)
C19_MissingFromTreeIsTrue ==
    script # "buddy" =>
        /\ pc \in AfterRead =>
             /\ \A j \in 1..Len(df) : NoFromTree(j) => df[j].from_tree = TRUE
             /\ Len(df_alloc_tree)
                  = Cardinality({j \in 1..Len(df) :
                        df[j].op = Alloc /\ (NoFromTree(j) \/ ReadsTrue(j))})
        /\ pc \in AfterCorr \ {"group"} =>
             LET calls == Calls("scatter", Alloc, "depth")
             IN  /\ Len(calls) = (IF df_alloc_tree # <<>> THEN 1 ELSE 0)
                 /\ \A k \in 1..Len(calls) :
                      calls[k].x = Col(df_alloc_tree, "depth")
        /\ pc \in AfterSummaries /\ df_alloc # <<>> =>
             /\ Tagged("alloc_from_tree")[1].count
                  = MeasuredAllocs({j \in 1..Len(df) :
                                      NoFromTree(j) \/ ReadsTrue(j)})
             /\ Tagged("alloc_not_from_tree")[1].count
                  = MeasuredAllocs({j \in 1..Len(df) :
                                      ~NoFromTree(j) /\ ~ReadsTrue(j)})

\* an alloc row without a from_tree cell next to one that says "no"
C19_Witness ==
    /\ pc = "done"
    /\ script = "heap"
    /\ Len(df) = 2
    /\ \E j \in 1..2 : /\ NoFromTree(j)
                       /\ df[j].op = Alloc
                       /\ df[j].cycles.k = "fin"
    /\ \E j \in 1..2 : /\ raw.rows[j].from_tree = Cell(<<"n", "o">>)
                       /\ df[j].op = Alloc
                       /\ df[j].cycles.k = "fin"
    /\ Tagged("alloc_from_tree")[1].count = 1
    /\ Tagged("alloc_not_from_tree")[1].count = 1
    /\ Len(Calls("scatter", Alloc, "depth")[1].x) = 1

====
